---- MODULE Spec2Model ----
(***************************************************************************)
(* Model of numbat's dimension/unit registry (src/src/registry.rs) and of  *)
(* the type-checker's substitutions                                        *)
(* (src/numbat/src/typechecker/substitutions.rs).                          *)
(*                                                                         *)
(*   Spec        the Registry<A> object and its public operations          *)
(*   SpecMerge   Registry::merge_base_representations as a pure function   *)
(*   SpecExtend  Substitution::extend (composition of substitutions)       *)
(*   SpecApply   <Type as ApplySubstitution>::apply                        *)
(***************************************************************************)
EXTENDS Integers, Sequences, FiniteSets, TLC

VARIABLES base_entries, derived_entries, last,   \* Registry<A> and its last call
          registered,                            \* history: adapter output stored per name
          lhs, rhs, merged,                      \* operands / result of a merge
          self, other, extended,                 \* operands / result of extend
          subst, ty, applied                     \* operands / result of apply

vars == <<base_entries, derived_entries, last, registered, lhs, rhs, merged,
          self, other, extended, subst, ty, applied>>

registry_vars == <<base_entries, derived_entries, last, registered>>
merge_vars == <<lhs, rhs, merged>>
extend_vars == <<self, other, extended>>
apply_vars == <<subst, ty, applied>>

(***************************************************************************)
(* Bounds of the model.                                                    *)
(***************************************************************************)
\* longest component list of a generated BaseRepresentation
MaxLen == 2
\* generated exponents range over -MaxExp..MaxExp
MaxExp == 1
\* longest generated Substitution
MaxSubstLen == 2
\* most parameters of a generated Fn type, most fields of a generated Struct
MaxArity == 1

(***************************************************************************)
(* Results: Ok(v) and Err(RegistryError).                                  *)
(***************************************************************************)
Ok(v) == <<"Ok", v>>
EntryExists(name) == <<"Err", "EntryExists", name>>
UnknownEntry(name) == <<"Err", "UnknownEntry", name>>
IsOk(r) == r[1] = "Ok"

(***************************************************************************)
(* Names.  Rust orders String byte-wise; NameOrder lists the names of the  *)
(* model in that order.                                                    *)
(***************************************************************************)
NameOrder == <<"length", "speed", "time">>
Names == {NameOrder[i] : i \in 1..Len(NameOrder)}
NameRank(n) == CHOOSE i \in 1..Len(NameOrder) : NameOrder[i] = n

\* names used in the component lists of generated representations
BaseNames == {"length", "time"}
Exponents == (0 - MaxExp)..MaxExp
Components == BaseNames \X Exponents

\* every value from_components can build, up to MaxLen components
Reps == UNION {[1..n -> Components] : n \in 0..MaxLen}

(***************************************************************************)
(* BaseRepresentation: the struct has the single field `components`, and   *)
(* is modelled by that sequence of <<name, exponent>> pairs.               *)
(***************************************************************************)
from_components(components) == components

scalar == <<>>

invert(r) == from_components([i \in 1..Len(r) |-> <<r[i][1], 0 - r[i][2]>>])

\* derived Ord of (String, i32): by name, then by exponent
ComponentLess(x, y) ==
    \/ NameRank(x[1]) < NameRank(y[1])
    \/ (x[1] = y[1] /\ x[2] < y[2])

RECURSIVE InsertSorted(_, _)
InsertSorted(c, s) ==
    IF s = <<>> THEN <<c>>
    ELSE IF ComponentLess(c, Head(s)) THEN <<c>> \o s
    ELSE <<Head(s)>> \o InsertSorted(c, Tail(s))

\* Vec::sort (stable, ascending)
RECURSIVE sort(_)
sort(s) ==
    IF s = <<>> THEN <<>>
    ELSE InsertSorted(s[Len(s)], sort(SubSeq(s, 1, Len(s) - 1)))

\* Vec::retain(|(_, exponent)| *exponent != 0)
retain(s) == SelectSeq(s, LAMBDA c : c[2] # 0)

\* iter_mut().find(|(name_lhs, _)| name_lhs == name): first index, 0 if none
FindIndex(components, name) ==
    IF \E i \in 1..Len(components) : components[i][1] = name
    THEN CHOOSE i \in 1..Len(components) :
            /\ components[i][1] = name
            /\ \A j \in 1..(i - 1) : components[j][1] # name
    ELSE 0

\* one iteration of the loop over rhs.components
MergeStep(result, c) ==
    LET i == FindIndex(result, c[1])
    IN  IF i # 0
        THEN [result EXCEPT ![i] = <<result[i][1], result[i][2] + c[2]>>]
        ELSE Append(result, c)

RECURSIVE MergeLoop(_, _)
MergeLoop(result, r) ==
    IF r = <<>> THEN result
    ELSE MergeLoop(MergeStep(result, Head(r)), Tail(r))

\* merge_base_representations without the retain of non-zero exponents
merge_keeping_zeros(l, r) == sort(MergeLoop(l, r))

\* merge_base_representations without the final sort
merge_unsorted(l, r) == retain(MergeLoop(l, r))

merge_base_representations(l, r) == sort(retain(MergeLoop(l, r)))

(***************************************************************************)
(* Type (typed_ast): a tagged union, modelled as a tuple whose first       *)
(* component is the variant's name.  A DType is a list of factors          *)
(* <<kind, name, exponent>>; a factor of kind "TVar" is a type variable    *)
(* inside a dimension type.                                                *)
(***************************************************************************)
TVar(v) == <<"TVar", v>>
Dimension(dtype) == <<"Dimension", dtype>>
Boolean == <<"Boolean">>
String == <<"String">>
DateTime == <<"DateTime">>
Fn(param_types, return_type) == <<"Fn", param_types, return_type>>
Struct(fields) == <<"Struct", fields>>
List(element_type) == <<"List", element_type>>

TypeVariables == {"a", "b"}

DTypes == { << <<"BaseDimension", "length", 1>> >>,
            << <<"TVar", "a", 1>>, <<"BaseDimension", "time", -1>> >> }

FieldNames == <<"x", "y", "z">>

LeafTypes == {TVar(v) : v \in TypeVariables}
             \cup {Boolean, Dimension(<< <<"TVar", "a", 1>>,
                                         <<"BaseDimension", "time", -1>> >>)}

AtomTypes == LeafTypes \cup {String, DateTime} \cup {Dimension(d) : d \in DTypes}

TypeLists == UNION {[1..n -> LeafTypes] : n \in 0..MaxArity}

FnTypes == {Fn(ps, r) : ps \in TypeLists, r \in LeafTypes}

StructTypes ==
    {Struct([i \in 1..Len(ts) |-> <<FieldNames[i], ts[i]>>]) : ts \in TypeLists}

NestedTypes ==
    { List(List(TVar("a"))),
      List(Fn(<<TVar("b")>>, TVar("a"))),
      Fn(<<List(TVar("a"))>>, Struct(<< <<"x", TVar("b")>> >>)),
      Struct(<< <<"x", List(TVar("b"))>> >>) }

Types == AtomTypes \cup FnTypes \cup StructTypes
         \cup {List(t) : t \in AtomTypes} \cup NestedTypes

\* right-hand sides of generated substitutions
BoundTypes == {TVar("b"), Boolean, List(TVar("a"))}

Bindings == TypeVariables \X BoundTypes

\* Substitution(Vec<(TypeVariable, Type)>): a sequence of <<variable, type>>
Substitutions == UNION {[1..n -> Bindings] : n \in 0..MaxSubstLen}

SubstitutedNonDTypeWithinDType(t) ==
    <<"Err", "SubstitutedNonDTypeWithinDType", t>>

(***************************************************************************)
(* Substitution                                                            *)
(***************************************************************************)
empty == <<>>

single(v, t) == << <<v, t>> >>

\* lookup that returns the last pair for v
lookup_last(s, v) ==
    IF \E i \in 1..Len(s) : s[i][1] = v
    THEN LET i == CHOOSE k \in 1..Len(s) :
                     /\ s[k][1] = v
                     /\ \A j \in (k + 1)..Len(s) : s[j][1] # v
         IN  <<"Some", s[i][2]>>
    ELSE <<"None">>

\* iter().find(|(var, _)| var == v): the first pair for v
lookup(s, v) ==
    IF \E i \in 1..Len(s) : s[i][1] = v
    THEN LET i == CHOOSE k \in 1..Len(s) :
                     /\ s[k][1] = v
                     /\ \A j \in 1..(k - 1) : s[j][1] # v
         IN  <<"Some", s[i][2]>>
    ELSE <<"None">>

\* <DType as ApplySubstitution>::apply
apply_dtype(dtype, s) == [dtype |-> dtype, result |-> Ok(<<>>)]

\* the value left in place and the returned Result
Applied(t, result) == [ty |-> t, result |-> result]

RECURSIVE apply(_, _)
RECURSIVE ApplyEach(_, _)

\* `for t in ts { t.apply(s)?; }`: stops at the first error, the types
\* visited so far stay mutated
ApplyEach(ts, s) ==
    IF ts = <<>> THEN [tys |-> <<>>, result |-> Ok(<<>>)]
    ELSE LET h == apply(Head(ts), s)
         IN  IF ~IsOk(h.result)
             THEN [tys |-> <<h.ty>> \o Tail(ts), result |-> h.result]
             ELSE LET r == ApplyEach(Tail(ts), s)
                  IN  [tys |-> <<h.ty>> \o r.tys, result |-> r.result]

\* <Type as ApplySubstitution>::apply
apply(t, s) ==
    CASE t[1] = "TVar" ->
            LET b == lookup(s, t[2])
            IN  Applied(IF b[1] = "Some" THEN b[2] ELSE t, Ok(<<>>))
      [] t[1] = "Dimension" ->
            LET r == apply_dtype(t[2], s)
            IN  Applied(Dimension(r.dtype), r.result)
      [] t[1] \in {"Boolean", "String", "DateTime"} -> Applied(t, Ok(<<>>))
      [] t[1] = "Fn" ->
            LET ps == ApplyEach(t[2], s)
            IN  IF ~IsOk(ps.result)
                THEN Applied(Fn(ps.tys, t[3]), ps.result)
                ELSE LET r == apply(t[3], s)
                     IN  Applied(Fn(ps.tys, r.ty), r.result)
      [] t[1] = "Struct" ->
            LET fs == ApplyEach([i \in 1..Len(t[2]) |-> t[2][i][2]], s)
            IN  Applied(Struct([i \in 1..Len(t[2]) |-> <<t[2][i][1], fs.tys[i]>>]),
                        fs.result)
      [] t[1] = "List" ->
            LET r == apply(t[2], s)
            IN  Applied(List(r.ty), r.result)

\* extend that appends other without applying it to the stored types
extend_append_only(s, o) == <<"Some", s \o o>>

\* Substitution::extend: the value of self after the call, or a panic when
\* an apply fails under the unwrap
extend(s, o) ==
    IF \E i \in 1..Len(s) : ~IsOk(apply(s[i][2], o).result)
    THEN <<"Panic">>
    ELSE <<"Some", [i \in 1..Len(s) |-> <<s[i][1], apply(s[i][2], o).ty>>] \o o>>

(***************************************************************************)
(* Registry<A>.  base_entries is the Vec<(String, A::Metadata)>,           *)
(* derived_entries the HashMap<String, BaseRepresentation> (a function on  *)
(* the set of its keys).                                                   *)
(***************************************************************************)
Metadata == {"m1", "m2"}

\* A::DerivedExpression is opaque to the registry
DerivedExpressions == {"e1"}

\* representations an adapter hands back in this model
AdapterReps ==
    { <<>>,
      << <<"length", 1>>, <<"time", -1>> >>,
      << <<"time", 1>>, <<"length", 2>> >> }

\* RegistryAdapter::expression_to_base_representation is supplied by the
\* embedding: any Result<BaseRepresentation> is a possible outcome
expression_to_base_representation(entries, derived, expression) ==
    {Ok(r) : r \in AdapterReps} \cup {UnknownEntry(n) : n \in Names}

EmptyMap == [n \in {} |-> <<>>]

\* HashMap::insert
Insert(map, key, value) ==
    [k \in (DOMAIN map) \cup {key} |-> IF k = key THEN value ELSE map[k]]

is_base_entry(entries, name) ==
    \E i \in 1..Len(entries) : entries[i][1] = name

\* add_base_entry without the is_base_entry check
add_base_entry_unchecked(entries, name, metadata) ==
    [entries |-> Append(entries, <<name, metadata>>), result |-> Ok(<<>>)]

\* new base_entries and the returned Result
add_base_entry(entries, name, metadata) ==
    IF is_base_entry(entries, name)
    THEN [entries |-> entries, result |-> EntryExists(name)]
    ELSE [entries |-> Append(entries, <<name, metadata>>), result |-> Ok(<<>>)]

\* add_derived_entry that inserts before it looks for an existing key
add_derived_entry_insert_first(derived, name, outcome) ==
    IF ~IsOk(outcome)
    THEN [derived |-> derived, result |-> outcome, adapter |-> TRUE]
    ELSE [derived |-> Insert(derived, name, outcome[2]),
          result |-> IF name \in DOMAIN derived
                     THEN EntryExists(name) ELSE Ok(<<>>),
          adapter |-> TRUE]

\* new derived_entries and the returned Result; outcome is what
\* get_base_representation(expression) returns when it is called
add_derived_entry(derived, name, outcome) ==
    IF name \in DOMAIN derived
    THEN [derived |-> derived, result |-> EntryExists(name), adapter |-> FALSE]
    ELSE IF IsOk(outcome)
    THEN [derived |-> Insert(derived, name, outcome[2]),
          result |-> Ok(<<>>), adapter |-> TRUE]
    ELSE [derived |-> derived, result |-> outcome, adapter |-> TRUE]

\* get_base_representation_for_name that consults the cache first
get_derived_first(entries, derived, name) ==
    IF name \in DOMAIN derived
    THEN Ok(derived[name])
    ELSE IF is_base_entry(entries, name)
    THEN Ok(from_components(<< <<name, 1>> >>))
    ELSE UnknownEntry(name)

get_base_representation_for_name(entries, derived, name) ==
    IF is_base_entry(entries, name)
    THEN Ok(from_components(<< <<name, 1>> >>))
    ELSE IF name \in DOMAIN derived
    THEN Ok(derived[name])
    ELSE UnknownEntry(name)

Call(op, name, result, adapter) ==
    [op |-> op, name |-> name, result |-> result, adapter |-> adapter]

\* values of the variables a specification does not use
IdleRegistry ==
    /\ base_entries = <<>>
    /\ derived_entries = EmptyMap
    /\ registered = EmptyMap
    /\ last = Call("none", "length", Ok(<<>>), FALSE)

IdleMerge == lhs = <<>> /\ rhs = <<>> /\ merged = <<"None">>

IdleExtend == self = <<>> /\ other = <<>> /\ extended = <<"None">>

IdleApply == subst = <<>> /\ ty = <<"Boolean">> /\ applied = <<"None">>

(***************************************************************************)
(* Spec: the registry.  Init is Registry::default().                       *)
(***************************************************************************)
Init ==
    /\ base_entries = <<>>
    /\ derived_entries = EmptyMap
    /\ registered = EmptyMap
    /\ last = Call("none", "length", Ok(<<>>), FALSE)
    /\ IdleMerge /\ IdleExtend /\ IdleApply

AddBaseEntry(name, metadata) ==
    LET r == add_base_entry(base_entries, name, metadata)
    IN  /\ base_entries' = r.entries
        /\ last' = Call("add_base_entry", name, r.result, FALSE)
        /\ UNCHANGED <<derived_entries, registered>>
        /\ UNCHANGED <<merge_vars, extend_vars, apply_vars>>

AddDerivedEntry(name, expression, metadata) ==
    \E outcome \in expression_to_base_representation(
                       base_entries, derived_entries, expression) :
        LET r == add_derived_entry(derived_entries, name, outcome)
        IN  /\ derived_entries' = r.derived
            /\ last' = Call("add_derived_entry", name, r.result, r.adapter)
            /\ registered' = IF IsOk(r.result)
                             THEN Insert(registered, name, outcome[2])
                             ELSE registered
            /\ UNCHANGED base_entries
            /\ UNCHANGED <<merge_vars, extend_vars, apply_vars>>

GetBaseRepresentationForName(name) ==
    /\ last' = Call("get_base_representation_for_name", name,
                    get_base_representation_for_name(
                        base_entries, derived_entries, name),
                    FALSE)
    /\ UNCHANGED <<base_entries, derived_entries, registered>>
    /\ UNCHANGED <<merge_vars, extend_vars, apply_vars>>

Next ==
    \/ \E name \in Names, metadata \in Metadata : AddBaseEntry(name, metadata)
    \/ \E name \in Names, expression \in DerivedExpressions,
          metadata \in Metadata : AddDerivedEntry(name, expression, metadata)
    \/ \E name \in Names : GetBaseRepresentationForName(name)

Spec == Init /\ [][Next]_vars

(***************************************************************************)
(* SpecMerge: merge_base_representations applied to every pair of          *)
(* representations within the bounds.                                      *)
(***************************************************************************)
InitMerge ==
    /\ lhs \in Reps
    /\ rhs \in Reps
    /\ merged = <<"None">>
    /\ IdleRegistry /\ IdleExtend /\ IdleApply

MergeBaseRepresentations ==
    /\ merged' = <<"Some", merge_base_representations(lhs, rhs)>>
    /\ UNCHANGED <<lhs, rhs>>
    /\ UNCHANGED <<registry_vars, extend_vars, apply_vars>>

NextMerge == MergeBaseRepresentations

SpecMerge == InitMerge /\ [][NextMerge]_vars

(***************************************************************************)
(* SpecExtend: self.extend(other) for every pair of substitutions within   *)
(* the bounds.  `self` keeps the value before the call, `extended` the     *)
(* value of self after it.                                                 *)
(***************************************************************************)
InitExtend ==
    /\ self \in Substitutions
    /\ other \in Substitutions
    /\ extended = <<"None">>
    /\ IdleRegistry /\ IdleMerge /\ IdleApply

Extend ==
    /\ extended' = extend(self, other)
    /\ UNCHANGED <<self, other>>
    /\ UNCHANGED <<registry_vars, merge_vars, apply_vars>>

NextExtend == Extend

SpecExtend == InitExtend /\ [][NextExtend]_vars

(***************************************************************************)
(* SpecApply: ty.apply(&subst) for every type and substitution within the  *)
(* bounds.  `ty` keeps the value before the call, `applied` the value      *)
(* after it and the returned Result.                                       *)
(***************************************************************************)
InitApply ==
    /\ subst \in Substitutions
    /\ ty \in Types
    /\ applied = <<"None">>
    /\ IdleRegistry /\ IdleMerge /\ IdleExtend

Apply ==
    /\ applied' = LET r == apply(ty, subst) IN <<"Some", r.ty, r.result>>
    /\ UNCHANGED <<subst, ty>>
    /\ UNCHANGED <<registry_vars, merge_vars, extend_vars>>

NextApply == Apply

SpecApply == InitApply /\ [][NextApply]_vars

(***************************************************************************)
(* Properties of merge_base_representations (SpecMerge).                   *)
(***************************************************************************)
HasMerged == merged[1] = "Some"

\* the base names of r are pairwise distinct
DistinctNames(r) ==
    \A i, j \in 1..Len(r) : r[i][1] = r[j][1] => i = j

\* exponent of name n in a representation with distinct names, 0 if absent
ExponentOf(r, n) ==
    IF \E i \in 1..Len(r) : r[i][1] = n
    THEN r[CHOOSE i \in 1..Len(r) : r[i][1] = n][2]
    ELSE 0

SummedExponent(n) == ExponentOf(lhs, n) + ExponentOf(rhs, n)

\* the names in ascending order, each with its summed exponent, zeros left out
CanonicalProduct ==
    SelectSeq([i \in 1..Len(NameOrder) |->
                  <<NameOrder[i], SummedExponent(NameOrder[i])>>],
              LAMBDA c : c[2] # 0)

\* no zero exponent, names strictly ascending (hence pairwise distinct)
IsCanonical(r) ==
    /\ \A i \in 1..Len(r) : r[i][2] # 0
    /\ \A i, j \in 1..Len(r) : i < j => NameRank(r[i][1]) < NameRank(r[j][1])

\* C2: for operands with pairwise-distinct base names the result holds
\* exactly the bases whose summed exponent is non-zero, each with that sum,
\* has no zero exponent and is sorted ascending; it is determined by the
\* exponent sums alone.
C2_MergeIsCanonicalProduct ==
    (HasMerged /\ DistinctNames(lhs) /\ DistinctNames(rhs)) =>
        LET out == merged[2]
        IN  /\ \A n \in Names :
                 (SummedExponent(n) # 0) <=>
                     (\E i \in 1..Len(out) : out[i][1] = n)
            /\ \A i \in 1..Len(out) :
                 /\ out[i][2] = SummedExponent(out[i][1])
                 /\ out[i][2] # 0
            /\ \A i, j \in 1..Len(out) :
                 i < j => ComponentLess(out[i], out[j])
            /\ out = CanonicalProduct

\* a merge of an unsorted lhs in which one base cancels and one remains
C2_Witness ==
    /\ HasMerged /\ DistinctNames(lhs) /\ DistinctNames(rhs)
    /\ Len(lhs) = 2 /\ ComponentLess(lhs[2], lhs[1])
    /\ \E n \in Names : ExponentOf(lhs, n) # 0 /\ SummedExponent(n) = 0
    /\ Len(merged[2]) = 1

\* C6 (as stated): for every representation r, merge(r, r.invert()) is the
\* empty component list.
C6_InverseLaw ==
    (HasMerged /\ rhs = invert(lhs)) => merged[2] = scalar

\* C7 (as stated): for every representation r, merge(scalar(), r) = r and
\* merge(r, scalar()) = r.
C7_IdentityLawAllReps ==
    HasMerged =>
        /\ lhs = scalar => merged[2] = rhs
        /\ rhs = scalar => merged[2] = lhs

\* C7 (amended): merge(scalar(), r) = r and merge(r, scalar()) = r for every
\* r in canonical form (distinct names, no zero exponent, sorted ascending),
\* and merge(scalar(), r) = r for no other r.
C7_IdentityLawCanonical ==
    HasMerged =>
        /\ lhs = scalar => (merged[2] = rhs <=> IsCanonical(rhs))
        /\ (rhs = scalar /\ IsCanonical(lhs)) => merged[2] = lhs

\* scalar() merged with a canonical two-component representation
C7_Witness ==
    /\ HasMerged /\ lhs = scalar
    /\ IsCanonical(rhs) /\ Len(rhs) = 2
    /\ merged[2] = rhs

\* C8 (as stated): merge is commutative and associative on all
\* representations.
C8_CommutativeAssociative ==
    HasMerged =>
        /\ merged[2] = merge_base_representations(rhs, lhs)
        /\ \A c \in Reps :
             merge_base_representations(merged[2], c) =
                 merge_base_representations(
                     lhs, merge_base_representations(rhs, c))

(***************************************************************************)
(* Properties of the registry (Spec).                                      *)
(***************************************************************************)
IsBase(n) == \E i \in 1..Len(base_entries) : base_entries[i][1] = n

IsDerived(n) == n \in DOMAIN derived_entries

\* C3: get_base_representation_for_name(name) returns {(name, 1)} for a base
\* entry, otherwise the cached representation of a derived entry, otherwise
\* UnknownEntry(name); the call leaves the registry as it was.
C3_LookupByName ==
    [][ last'.op = "get_base_representation_for_name" =>
          /\ base_entries' = base_entries
          /\ derived_entries' = derived_entries
          /\ last'.result =
               IF IsBase(last'.name) THEN Ok(<< <<last'.name, 1>> >>)
               ELSE IF IsDerived(last'.name)
               THEN Ok(derived_entries[last'.name])
               ELSE UnknownEntry(last'.name) ]_vars

\* every kind of name is present and a derived, non-base name was looked up
C3_Witness ==
    /\ last.op = "get_base_representation_for_name"
    /\ IsDerived(last.name) /\ ~IsBase(last.name)
    /\ last.result = Ok(derived_entries[last.name])
    /\ \E n \in Names : IsBase(n)
    /\ \E n \in Names : ~IsBase(n) /\ ~IsDerived(n)

\* C4 (as stated): once add_derived_entry(name, ...) has succeeded, every
\* later get_base_representation_for_name(name) returns the representation
\* the adapter produced at registration, without calling the adapter.
C4_MemoizedAlways ==
    (last.op = "get_base_representation_for_name"
        /\ last.name \in DOMAIN registered) =>
            /\ last.result = Ok(registered[last.name])
            /\ ~last.adapter

\* C4 (amended): once add_derived_entry(name, ...) has succeeded, every later
\* get_base_representation_for_name(name) returns the representation the
\* adapter produced at registration, without calling the adapter, as long as
\* name is not a base entry; when name is also a base entry (declared before
\* or after) the lookup returns {(name, 1)}.
C4_MemoizedUnlessBase ==
    /\ \A n \in DOMAIN registered :
         get_base_representation_for_name(base_entries, derived_entries, n) =
             IF IsBase(n) THEN Ok(<< <<n, 1>> >>) ELSE Ok(registered[n])
    /\ last.op = "get_base_representation_for_name" =>
         /\ ~last.adapter
         /\ last.name \in DOMAIN registered =>
              last.result = IF IsBase(last.name)
                            THEN Ok(<< <<last.name, 1>> >>)
                            ELSE Ok(registered[last.name])

\* "speed" registered as length^1 time^-1 over the base entries length and
\* time, and then looked up
C4_Witness ==
    /\ last.op = "get_base_representation_for_name"
    /\ last.name = "speed"
    /\ IsBase("length") /\ IsBase("time") /\ ~IsBase("speed")
    /\ "speed" \in DOMAIN registered
    /\ registered["speed"] = << <<"length", 1>>, <<"time", -1>> >>
    /\ last.result = Ok(<< <<"length", 1>>, <<"time", -1>> >>)

\* C5: add_base_entry(name, m) succeeds iff name is not yet a base entry and
\* then name is a base entry; otherwise it fails with EntryExists(name);
\* add_derived_entry(name, ...) fails with EntryExists(name) when name is
\* already derived; a failing add changes neither base_entries nor
\* derived_entries.
C5_DuplicatesRejected ==
    [][ /\ last'.op = "add_base_entry" =>
             /\ IsOk(last'.result) <=> ~IsBase(last'.name)
             /\ IsOk(last'.result) =>
                  is_base_entry(base_entries', last'.name)
             /\ ~IsOk(last'.result) =>
                  last'.result = EntryExists(last'.name)
        /\ (last'.op = "add_derived_entry" /\ IsDerived(last'.name)) =>
             last'.result = EntryExists(last'.name)
        /\ (last'.op \in {"add_base_entry", "add_derived_entry"}
              /\ ~IsOk(last'.result)) =>
             /\ base_entries' = base_entries
             /\ derived_entries' = derived_entries ]_vars

\* a rejected second add_base_entry on a registry holding two base entries
\* and a derived entry
C5_Witness ==
    /\ last.op = "add_base_entry"
    /\ last.result = EntryExists(last.name)
    /\ Len(base_entries) = 2
    /\ derived_entries # EmptyMap

(***************************************************************************)
(* Properties of Substitution::extend (SpecExtend).                        *)
(***************************************************************************)
\* C1: applying self.extend(other) in one pass gives the same type as
\* applying self and then other, for every type; if self maps a to TVar(b)
\* and other maps b to Boolean, a resolves to Boolean afterwards.
C1_CompositionLaw ==
    extended[1] # "None" =>
        /\ extended[1] = "Some"
        /\ \A t \in Types :
             apply(t, extended[2]).ty = apply(apply(t, self).ty, other).ty
        /\ (lookup(self, "a") = <<"Some", TVar("b")>>
              /\ lookup(other, "b") = <<"Some", Boolean>>) =>
             apply(TVar("a"), extended[2]).ty = Boolean

\* self holds two pairs for a, the first one a -> TVar(b); other maps b to
\* Boolean; after extend a resolves to Boolean
C1_Witness ==
    /\ extended[1] = "Some"
    /\ Len(self) = 2 /\ self[1] = <<"a", TVar("b")>> /\ self[2][1] = "a"
    /\ lookup(other, "b") = <<"Some", Boolean>>
    /\ lookup(extended[2], "a") = <<"Some", Boolean>>

(***************************************************************************)
(* Properties of <Type as ApplySubstitution>::apply (SpecApply).           *)
(***************************************************************************)
HasApplied == applied[1] = "Some"

BoundVariables(s) == {s[i][1] : i \in 1..Len(s)}

\* the type of the pair with the least index among the pairs for v
FirstBinding(s, v) ==
    LET I == {i \in 1..Len(s) : s[i][1] = v}
    IN  s[CHOOSE i \in I : \A j \in I : i <= j][2]

\* type variables occurring as the type itself, a parameter or return type,
\* a field type or an element type
RECURSIVE Occurring(_)
Occurring(t) ==
    CASE t[1] = "TVar" -> {t[2]}
      [] t[1] = "Fn" ->
            Occurring(t[3]) \cup UNION {Occurring(t[2][i]) : i \in 1..Len(t[2])}
      [] t[1] = "Struct" -> UNION {Occurring(t[2][i][2]) : i \in 1..Len(t[2])}
      [] t[1] = "List" -> Occurring(t[2])
      [] OTHER -> {}

\* t with every such occurrence of a bound variable replaced, once
RECURSIVE Substituted(_, _)
Substituted(t, s) ==
    CASE t[1] = "TVar" ->
            IF t[2] \in BoundVariables(s) THEN FirstBinding(s, t[2]) ELSE t
      [] t[1] = "Fn" ->
            Fn([i \in 1..Len(t[2]) |-> Substituted(t[2][i], s)],
               Substituted(t[3], s))
      [] t[1] = "Struct" ->
            Struct([i \in 1..Len(t[2]) |->
                       <<t[2][i][1], Substituted(t[2][i][2], s)>>])
      [] t[1] = "List" -> List(Substituted(t[2], s))
      [] OTHER -> t

\* C9: apply replaces, in one pass, every type-variable occurrence (the type
\* itself, parameters and return type, field types, element type) bound by
\* the substitution with the first binding for it and leaves the rest as it
\* was; a type with no bound variable is unchanged; {a -> Boolean} applied
\* to Fn([TVar(a)], TVar(a)) gives Fn([Boolean], Boolean).
C9_ApplyReplacesBoundVariables ==
    HasApplied =>
        /\ applied[2] = Substituted(ty, subst)
        /\ Occurring(ty) \cap BoundVariables(subst) = {} => applied[2] = ty
        /\ (ty[1] = "TVar" /\ ty[2] \notin BoundVariables(subst)) =>
             applied[2] = ty
        /\ (ty = Fn(<<TVar("a")>>, TVar("a")) /\ subst = single("a", Boolean)) =>
             applied[2] = Fn(<<Boolean>>, Boolean)

\* {a -> Boolean} applied to Fn([TVar(a)], TVar(a))
C9_Witness ==
    /\ HasApplied
    /\ ty = Fn(<<TVar("a")>>, TVar("a"))
    /\ subst = single("a", Boolean)
    /\ applied[2] = Fn(<<Boolean>>, Boolean)

\* a type variable inside the dimension type t that s binds to a type that
\* is neither a dimension type nor a type variable
NonDTypeWithin(t, s) ==
    {lookup(s, t[2][i][2])[2] :
        i \in {k \in 1..Len(t[2]) :
                  /\ t[2][k][1] = "TVar"
                  /\ lookup(s, t[2][k][2])[1] = "Some"
                  /\ lookup(s, t[2][k][2])[2][1] \notin {"Dimension", "TVar"}}}

\* C10: when a type variable inside a dimension type resolves to a
\* non-dimension type, apply returns SubstitutedNonDTypeWithinDType carrying
\* that type instead of Ok.
C10_NonDTypeRejected ==
    (HasApplied /\ ty[1] = "Dimension" /\ NonDTypeWithin(ty, subst) # {}) =>
        \E t \in NonDTypeWithin(ty, subst) :
            applied[3] = SubstitutedNonDTypeWithinDType(t)

====
